---- MODULE Spec2Model ----
(***************************************************************************)
(* PlasmaSPICE core: the Circuit class (index maps, DC modified nodal      *)
(* analysis, DAE assembly, consistent initial conditions) and the element  *)
(* stamps of plasmaSpice/core/elements.py.                                 *)
(*                                                                         *)
(* Numbers.  The program computes in floating point; the model computes    *)
(* the same expressions exactly.  A number is n / (d * BASE^s) with n an   *)
(* integer of any size (a little-endian tuple of base-BASE digits), so     *)
(* that the constants 1e9 and 1e-6 of the DC stamps keep their value.      *)
(* A matrix is a tuple of rows and a vector a tuple: index k of the        *)
(* program is position k + 1 here.  np.linalg.solve is Cramer's rule; its  *)
(* result is kept as numerators over one common denominator.               *)
(***************************************************************************)
EXTENDS Integers, Sequences, FiniteSets, TLC

VARIABLES
    elements,         \* Circuit.elements
    nodes,            \* Circuit.nodes
    voltage_sources,  \* Circuit.voltage_sources
    node_map,         \* Circuit.node_map
    vsrc_map,         \* Circuit.vsrc_map
    algvar_list,      \* Circuit._algvar_list
    ret               \* the last call made on the circuit and what it returned or raised

vars == <<elements, nodes, voltage_sources, node_map, vsrc_map, algvar_list, ret>>

-----------------------------------------------------------------------------
(* Bounds of the model *)

\* longest element list explored
MaxElems == 3

-----------------------------------------------------------------------------
(* Exact arithmetic *)

\* digits are base 10^3, so that 1e9 and 1e6 are single shifted digits
BASE == 10 * 10 * 10

Max(a, b) == IF a >= b THEN a ELSE b
Abs(a) == IF a >= 0 THEN a ELSE -a

RECURSIVE Gcd(_, _)
Gcd(a, b) == IF b = 0 THEN Abs(a) ELSE Gcd(b, a % Abs(b))
Lcm(a, b) == (a \div Gcd(a, b)) * b

\* a function on 1..n as a tuple
Tup(f) == f \o <<>>

RECURSIVE BigCarry(_, _)
BigCarry(a, c) ==
    IF a = <<>>
    THEN IF c = 0 THEN <<>>
         ELSE IF c > -BASE /\ c < BASE THEN <<c>>
         ELSE <<c % BASE>> \o BigCarry(<<>>, c \div BASE)
    ELSE <<(a[1] + c) % BASE>> \o BigCarry(Tail(a), (a[1] + c) \div BASE)

RECURSIVE BigTrim(_)
BigTrim(a) ==
    IF a = <<>> THEN a
    ELSE IF a[Len(a)] = 0 THEN BigTrim(SubSeq(a, 1, Len(a) - 1)) ELSE a

BigNeg(a) == Tup([i \in 1..Len(a) |-> -a[i]])

\* the one digit tuple of a value: digits of one sign, none of them BASE or more,
\* the last one not 0; the empty tuple is 0
BigNormPos(p) == IF p = <<>> \/ p[Len(p)] > 0 THEN p ELSE BigNeg(BigTrim(BigCarry(BigNeg(p), 0)))
BigNorm(a) == BigNormPos(BigTrim(BigCarry(a, 0)))

BigOf(k) == BigNorm(<<k>>)
BigDigit(a, i) == IF i >= 1 /\ i <= Len(a) THEN a[i] ELSE 0
BigAdd(a, b) == BigNorm(Tup([i \in 1..Max(Len(a), Len(b)) |-> BigDigit(a, i) + BigDigit(b, i)]))
BigScale(c, a) == BigNorm(Tup([i \in 1..Len(a) |-> c * a[i]]))
BigShift(a, s) ==
    IF a = <<>> THEN a ELSE Tup([i \in 1..(Len(a) + s) |-> IF i <= s THEN 0 ELSE a[i - s]])
RECURSIVE BigConv(_, _, _, _)
BigConv(a, b, i, j) ==
    IF j > Len(a) \/ j > i THEN 0
    ELSE (IF i + 1 - j <= Len(b) THEN a[j] * b[i + 1 - j] ELSE 0) + BigConv(a, b, i, j + 1)
BigMul(a, b) ==
    IF a = <<>> \/ b = <<>> THEN <<>>
    ELSE BigNorm(Tup([i \in 1..(Len(a) + Len(b) - 1) |-> BigConv(a, b, i, 1)]))

\* the number n / (d * BASE^s), d > 0
Num(n, d, s) == [n |-> n, d |-> d, s |-> s]
Int2Num(k) == Num(BigOf(k), 1, 0)
Zero == Int2Num(0)
One == Int2Num(1)
\* x + y over the denominator d * BASE^s, a common multiple of both denominators
NumAddOver(x, y, d, s) ==
    Num(BigAdd(BigShift(BigScale(d \div x.d, x.n), s - x.s),
               BigShift(BigScale(d \div y.d, y.n), s - y.s)), d, s)
NumAdd(x, y) ==
    IF x.n = <<>> THEN y
    ELSE IF y.n = <<>> THEN x
    ELSE NumAddOver(x, y, Lcm(x.d, y.d), Max(x.s, y.s))
NumNeg(x) == Num(BigNeg(x.n), x.d, x.s)
NumSub(x, y) == NumAdd(x, NumNeg(y))
NumMul(x, y) ==
    IF x.n = <<>> \/ y.n = <<>> THEN Zero
    ELSE Num(BigMul(x.n, y.n), x.d * y.d, x.s + y.s)
NumIsZero(x) == x.n = <<>>
NumEq(x, y) == NumIsZero(NumSub(x, y))
\* 1 / k for an integer k other than 0; factors BASE of k go to the exponent
RECURSIVE NumInvShift(_, _)
NumInvShift(k, s) ==
    IF k % BASE = 0 THEN NumInvShift(k \div BASE, s + 1)
    ELSE Num(BigOf(IF k > 0 THEN 1 ELSE -1), Abs(k), s)
NumInv(k) == NumInvShift(k, 0)
\* 1 / BASE^s
NumInvPow(s) == Num(BigOf(1), 1, s)
\* BASE^s
NumPow(s) == Num(BigShift(BigOf(1), s), 1, 0)

(* vectors and matrices, addressed by the program's 0-based indices *)
ZeroVec(n) == Tup([i \in 1..n |-> Zero])
ZeroMat(n) == Tup([i \in 1..n |-> ZeroVec(n)])
VGet(v, i) == v[i + 1]
VAdd(v, i, x) == [v EXCEPT ![i + 1] = NumAdd(@, x)]
VSub(v, i, x) == [v EXCEPT ![i + 1] = NumSub(@, x)]
VSet(v, i, x) == [v EXCEPT ![i + 1] = x]
MAdd(M, i, j, x) == [M EXCEPT ![i + 1][j + 1] = NumAdd(@, x)]
MSub(M, i, j, x) == [M EXCEPT ![i + 1][j + 1] = NumSub(@, x)]
MSet(M, i, j, x) == [M EXCEPT ![i + 1][j + 1] = x]
VecNeg(v) == Tup([i \in 1..Len(v) |-> NumNeg(v[i])])

RECURSIVE NumSum(_, _)
NumSum(t, k) ==
    IF k > Len(t) THEN Zero
    ELSE IF k = Len(t) THEN t[k] ELSE NumAdd(t[k], NumSum(t, k + 1))
\* row i of M times the vector y
RowDot(M, i, y) == NumSum(Tup([j \in 1..Len(y) |-> NumMul(M[i + 1][j], y[j])]), 1)
MatVec(M, y) == Tup([i \in 1..Len(M) |-> RowDot(M, i - 1, y)])
VecAdd(u, v) == Tup([i \in 1..Len(u) |-> NumAdd(u[i], v[i])])
VecScale(c, v) == Tup([i \in 1..Len(v) |-> NumMul(c, v[i])])

(* determinant, by expansion along the first row *)
RECURSIVE Det(_, _)
Minor(M, n, c) ==
    Tup([i \in 1..(n - 1) |-> Tup([j \in 1..(n - 1) |-> M[i + 1][IF j < c THEN j ELSE j + 1]])])
DetTerm(x, sub, c) == IF c % 2 = 1 THEN NumMul(x, sub) ELSE NumNeg(NumMul(x, sub))
Det(M, n) ==
    IF n = 0 THEN One
    ELSE NumSum(Tup([c \in 1..n |->
             IF NumIsZero(M[1][c]) THEN Zero
             ELSE DetTerm(M[1][c], Det(Minor(M, n, c), n - 1), c)]), 1)
ReplaceCol(M, n, c, b) ==
    Tup([i \in 1..n |-> Tup([j \in 1..n |-> IF j = c THEN b[i] ELSE M[i][j]])])

\* Cramer's rule, det the determinant of M
Cramer(M, b, det) ==
    IF NumIsZero(det)
    THEN [ok |-> FALSE]
    ELSE [ok |-> TRUE,
          den |-> det,
          num |-> Tup([c \in 1..Len(M) |-> Det(ReplaceCol(M, Len(M), c, b), Len(M))])]

\* np.linalg.solve(M, b): LinAlgError when M is singular, else the x with
\* M x = b, x[k] = num[k + 1] / den
linalg_solve(M, b) == Cramer(M, b, Det(M, Len(M)))

-----------------------------------------------------------------------------
(* Elements (elements.py).  An element is the record of its constructor's  *)
(* arguments; value is the resistance, voltage, current, capacitance or    *)
(* inductance.  Elements of a circuit are told apart by name.              *)

Element(cls, name, entrance, exit, value) ==
    [cls |-> cls, name |-> name, entrance |-> entrance, exit |-> exit, value |-> value]

\* Resistor.__init__ divides 1.0 by the resistance: ZeroDivisionError at 0.
\* No constructor checks the sign of its value.
ConstructorRaises(e) == e.cls = "Resistor" /\ e.value = 0

\* Resistor.conductance = 1.0 / resistance
conductance(e) == NumInv(e.value)

\* 1/r of Capacitor.stamp, r = 1e9
CapacitorDcConductance == NumInvPow(3)
\* 1/r of Inductor.stamp, r = 1e-6
InductorDcConductance == NumPow(2)

Range(q) == {q[k] : k \in 1..Len(q)}
IsInductor(e) == e.cls = "Inductor"
IsCapacitor(e) == e.cls = "Capacitor"
IsVoltageSource(e) == e.cls = "VoltageSource"

-----------------------------------------------------------------------------
(* Index maps (circuit.py) *)

\* list(S) sorted the wrong way round
RECURSIVE sorted_descending(_)
sorted_descending(S) ==
    IF S = {} THEN <<>>
    ELSE <<CHOOSE m \in S : \A x \in S : m >= x>>
         \o sorted_descending(S \ {CHOOSE m \in S : \A x \in S : m >= x})

\* sorted(list(S))
RECURSIVE sorted(_)
sorted(S) ==
    IF S = {} THEN <<>>
    ELSE <<CHOOSE m \in S : \A x \in S : m <= x>>
         \o sorted(S \ {CHOOSE m \in S : \A x \in S : m <= x})

\* {x: idx for idx, x in enumerate(q)} shifted by start: a later occurrence of a
\* key overwrites an earlier one
Enumerate(q, start) ==
    [x \in Range(q) |->
        start - 1 + CHOOSE k \in 1..Len(q) : q[k] = x /\ \A m \in (k + 1)..Len(q) : q[m] # x]

\* f, overwritten by g where g is defined (dict assignment of g's items into f)
Overwrite(f, g) ==
    [x \in DOMAIN f \cup DOMAIN g |-> IF x \in DOMAIN g THEN g[x] ELSE f[x]]

inductors_of(elems) == SelectSeq(elems, IsInductor)

\* _build_maps with the inductors numbered from vsrc_start_idx, not from
\* inductor_start_idx
build_maps_shared_start(elems, nds, vsrcs) ==
    [node_map |-> Enumerate(sorted(nds), 0),
     vsrc_map |-> Overwrite(Enumerate(vsrcs, Cardinality(nds)),
                            Enumerate(inductors_of(elems), Cardinality(nds))),
     n_nodes |-> Len(sorted(nds)),
     n_currents |-> Len(vsrcs) + Len(inductors_of(elems))]

\* Circuit._build_maps
build_maps(elems, nds, vsrcs) ==
    [node_map |-> Enumerate(sorted(nds), 0),
     vsrc_map |-> Overwrite(Enumerate(vsrcs, Cardinality(nds)),
                            Enumerate(inductors_of(elems), Cardinality(nds) + Len(vsrcs))),
     n_nodes |-> Len(sorted(nds)),
     n_currents |-> Len(vsrcs) + Len(inductors_of(elems))]

\* Circuit._build_dc_maps
build_dc_maps(elems, nds, vsrcs) ==
    [node_map |-> Enumerate(sorted(nds), 0),
     vsrc_map |-> Enumerate(vsrcs, Len(sorted(nds))),
     n_nodes |-> Len(sorted(nds)),
     n_vsrc |-> Len(vsrcs)]

\* _update_algvar_list without its second loop: the inductor currents stay 0
update_algvar_list_without_inductors(elems, maps) ==
    Tup([k \in 1..(maps.n_nodes + maps.n_currents) |->
        IF \E e \in Range(elems) :
               /\ IsCapacitor(e)
               /\ \/ e.entrance # 0 /\ maps.node_map[e.entrance] = k - 1
                  \/ e.exit # 0 /\ maps.node_map[e.exit] = k - 1
        THEN 1 ELSE 0])

\* Circuit._update_algvar_list, given the maps _build_maps has just built:
\* all 0, then 1 at each non-ground terminal of a capacitor and at each inductor
update_algvar_list(elems, maps) ==
    Tup([k \in 1..(maps.n_nodes + maps.n_currents) |->
        IF \/ \E e \in Range(elems) :
                /\ IsCapacitor(e)
                /\ \/ e.entrance # 0 /\ maps.node_map[e.entrance] = k - 1
                   \/ e.exit # 0 /\ maps.node_map[e.exit] = k - 1
           \/ \E e \in Range(elems) : IsInductor(e) /\ maps.vsrc_map[e] = k - 1
        THEN 1 ELSE 0])

-----------------------------------------------------------------------------
(* Stamps (elements.py).  A DC stamp takes the buffers [matrix, vector], a   *)
(* DAE stamp the buffers [A, B, C]; each gives them back with the element's  *)
(* statements applied in program order.  In the helpers ei and ej are the    *)
(* tests entrance != 0 and exit != 0, i and j the indices node_map gives the *)
(* two terminals (looked up only under their test), k the branch index.      *)

\* if c: M[i, j] += x     if c: M[i, j] -= x     if c: M[i, j] = x
MAddIf(c, M, i, j, x) == IF c THEN MAdd(M, i, j, x) ELSE M
MSubIf(c, M, i, j, x) == IF c THEN MSub(M, i, j, x) ELSE M
MSetIf(c, M, i, j, x) == IF c THEN MSet(M, i, j, x) ELSE M
\* if c: v[i] += x        if c: v[i] -= x
VAddIf(c, v, i, x) == IF c THEN VAdd(v, i, x) ELSE v
VSubIf(c, v, i, x) == IF c THEN VSub(v, i, x) ELSE v

\* the statements of Resistor.stamp, Resistor.stamp_dae and Capacitor.stamp_dae on
\* their matrix: [i,i] += g; under ej also [i,j] -= g, [j,i] -= g; then [j,j] += g
ConductanceStamp(M, ei, ej, i, j, g) ==
    MAddIf(ej,
           MSubIf(ei /\ ej, MSubIf(ei /\ ej, MAddIf(ei, M, i, i, g), i, j, g), j, i, g),
           j, j, g)

\* Capacitor.stamp and Inductor.stamp writing their entries with = instead of
\* += and -=
LeakStampAssigning(M, ei, ej, i, j, g) ==
    MSetIf(~ei /\ ej,
           MSetIf(ei /\ ej,
                  MSetIf(ei /\ ej, MSetIf(ei /\ ej, MSetIf(ei, M, i, i, g), i, j, NumNeg(g)),
                         j, i, NumNeg(g)),
                  j, j, g),
           j, j, g)

\* the statements of Capacitor.stamp and Inductor.stamp, g = 1/r: [j,j] += g is
\* inside the entrance branch, and in the elif when the entrance is ground
LeakStamp(M, ei, ej, i, j, g) ==
    MAddIf(~ei /\ ej,
           MAddIf(ei /\ ej,
                  MSubIf(ei /\ ej, MSubIf(ei /\ ej, MAddIf(ei, M, i, i, g), i, j, g), j, i, g),
                  j, j, g),
           j, j, g)

\* VoltageSource.stamp without its statements on row k: only [i,k] += 1 and
\* [j,k] -= 1
BranchStampColumnOnly(M, ei, ej, i, j, k) ==
    MSubIf(ej, MAddIf(ei, M, i, k, One), j, k, One)

\* VoltageSource.stamp on matrix
BranchStamp(M, ei, ej, i, j, k) ==
    MSubIf(ej, MSubIf(ej, MAddIf(ei, MAddIf(ei, M, i, k, One), k, i, One), j, k, One),
           k, j, One)

\* VoltageSource.stamp_dae on B
BranchStampDae(B, ei, ej, i, j, k) ==
    MSetIf(ej, MSetIf(ej, MSetIf(ei, MSetIf(ei, B, k, i, One), i, k, NumNeg(One)),
                      k, j, NumNeg(One)),
           j, k, One)

\* Inductor.stamp_dae on B
InductorStampDae(B, ei, ej, i, j, k) ==
    MSetIf(ej, MSetIf(ej, MSetIf(ei, MSetIf(ei, B, k, i, One), i, k, One),
                      k, j, NumNeg(One)),
           j, k, NumNeg(One))

Resistor_stamp(e, buf, nmap, vmap) ==
    [matrix |-> ConductanceStamp(buf.matrix, e.entrance # 0, e.exit # 0,
                                 nmap[e.entrance], nmap[e.exit], conductance(e)),
     vector |-> buf.vector]

VoltageSource_stamp(e, buf, nmap, vmap) ==
    [matrix |-> BranchStamp(buf.matrix, e.entrance # 0, e.exit # 0,
                            nmap[e.entrance], nmap[e.exit], vmap[e]),
     vector |-> VSet(buf.vector, vmap[e], Int2Num(e.value))]

CurrentSource_stamp(e, buf, nmap, vmap) ==
    [matrix |-> buf.matrix,
     vector |-> VAddIf(e.exit # 0,
                       VSubIf(e.entrance # 0, buf.vector, nmap[e.entrance], Int2Num(e.value)),
                       nmap[e.exit], Int2Num(e.value))]

Capacitor_stamp(e, buf, nmap, vmap) ==
    [matrix |-> LeakStamp(buf.matrix, e.entrance # 0, e.exit # 0,
                          nmap[e.entrance], nmap[e.exit], CapacitorDcConductance),
     vector |-> buf.vector]

\* Inductor.stamp without its off-diagonal statements [i,j] -= 1/r, [j,i] -= 1/r
Inductor_stamp_diagonal_only(e, buf, nmap, vmap) ==
    [matrix |-> MAddIf(e.exit # 0,
                       MAddIf(e.entrance # 0, buf.matrix,
                              nmap[e.entrance], nmap[e.entrance], InductorDcConductance),
                       nmap[e.exit], nmap[e.exit], InductorDcConductance),
     vector |-> buf.vector]

Inductor_stamp(e, buf, nmap, vmap) ==
    [matrix |-> LeakStamp(buf.matrix, e.entrance # 0, e.exit # 0,
                          nmap[e.entrance], nmap[e.exit], InductorDcConductance),
     vector |-> buf.vector]

\* element.stamp(matrix, vector, node_map, vsrc_map)
stamp(e, buf, nmap, vmap) ==
    CASE e.cls = "Resistor" -> Resistor_stamp(e, buf, nmap, vmap)
      [] e.cls = "VoltageSource" -> VoltageSource_stamp(e, buf, nmap, vmap)
      [] e.cls = "CurrentSource" -> CurrentSource_stamp(e, buf, nmap, vmap)
      [] e.cls = "Capacitor" -> Capacitor_stamp(e, buf, nmap, vmap)
      [] e.cls = "Inductor" -> Inductor_stamp(e, buf, nmap, vmap)

Resistor_stamp_dae(e, buf, nmap, vmap) ==
    [A |-> buf.A,
     B |-> ConductanceStamp(buf.B, e.entrance # 0, e.exit # 0,
                            nmap[e.entrance], nmap[e.exit], conductance(e)),
     C |-> buf.C]

VoltageSource_stamp_dae(e, buf, nmap, vmap) ==
    [A |-> buf.A,
     B |-> BranchStampDae(buf.B, e.entrance # 0, e.exit # 0,
                          nmap[e.entrance], nmap[e.exit], vmap[e]),
     C |-> VSet(buf.C, vmap[e], NumNeg(Int2Num(e.value)))]

CurrentSource_stamp_dae(e, buf, nmap, vmap) ==
    [A |-> buf.A,
     B |-> buf.B,
     C |-> VAddIf(e.exit # 0,
                  VSubIf(e.entrance # 0, buf.C, nmap[e.entrance], Int2Num(e.value)),
                  nmap[e.exit], Int2Num(e.value))]

Capacitor_stamp_dae(e, buf, nmap, vmap) ==
    [A |-> ConductanceStamp(buf.A, e.entrance # 0, e.exit # 0,
                            nmap[e.entrance], nmap[e.exit], Int2Num(e.value)),
     B |-> buf.B,
     C |-> buf.C]

Inductor_stamp_dae(e, buf, nmap, vmap) ==
    [A |-> MSet(buf.A, vmap[e], vmap[e], NumNeg(Int2Num(e.value))),
     B |-> InductorStampDae(buf.B, e.entrance # 0, e.exit # 0,
                            nmap[e.entrance], nmap[e.exit], vmap[e]),
     C |-> buf.C]

\* element.stamp_dae(A, B, C, node_map, vsrc_map)
stamp_dae(e, buf, nmap, vmap) ==
    CASE e.cls = "Resistor" -> Resistor_stamp_dae(e, buf, nmap, vmap)
      [] e.cls = "VoltageSource" -> VoltageSource_stamp_dae(e, buf, nmap, vmap)
      [] e.cls = "CurrentSource" -> CurrentSource_stamp_dae(e, buf, nmap, vmap)
      [] e.cls = "Capacitor" -> Capacitor_stamp_dae(e, buf, nmap, vmap)
      [] e.cls = "Inductor" -> Inductor_stamp_dae(e, buf, nmap, vmap)

\* for element in self.elements: element.stamp(...), from element k on
RECURSIVE StampAll(_, _, _, _, _)
StampAll(elems, k, buf, nmap, vmap) ==
    IF k > Len(elems) THEN buf
    ELSE StampAll(elems, k + 1, stamp(elems[k], buf, nmap, vmap), nmap, vmap)

\* for element in self.elements: element.stamp_dae(...), from element k on
RECURSIVE StampAllDae(_, _, _, _, _)
StampAllDae(elems, k, buf, nmap, vmap) ==
    IF k > Len(elems) THEN buf
    ELSE StampAllDae(elems, k + 1, stamp_dae(elems[k], buf, nmap, vmap), nmap, vmap)

-----------------------------------------------------------------------------
(* Analyses (circuit.py) *)

\* the keys src of vsrc_map with isinstance(src, VoltageSource)
VoltageSourcesOf(vmap) == {src \in DOMAIN vmap : IsVoltageSource(src)}

\* the source whose entry result["I_<name>"] keeps: the last one of that name
LastNamed(vmap, name) ==
    CHOOSE src \in VoltageSourcesOf(vmap) :
        /\ src.name = name
        /\ \A o \in VoltageSourcesOf(vmap) : o.name = name => vmap[o] <= vmap[src]

\* the end of Circuit.solve_dc, from np.linalg.solve on: the result dict is the
\* record of its "V<node>" entries and of its "I_<name>" entries, each entry the
\* numerator of its value over den
\* (a LinAlgError becomes the ValueError whose message quotes it, the cause)
dc_result(maps, buf, solution) ==
    IF ~solution.ok
    THEN [op |-> "solve_dc", status |-> "ValueError", cause |-> "LinAlgError"]
    ELSE [op |-> "solve_dc", status |-> "ok",
          matrix |-> buf.matrix, vector |-> buf.vector,
          V |-> [node \in DOMAIN maps.node_map |-> VGet(solution.num, maps.node_map[node])],
          I |-> [name \in {src.name : src \in VoltageSourcesOf(maps.vsrc_map)} |->
                    VGet(solution.num, maps.vsrc_map[LastNamed(maps.vsrc_map, name)])],
          den |-> solution.den]

\* solve_dc stamping into the buffers its previous call left, when ret still
\* holds them, instead of into fresh np.zeros buffers
dc_stamped_accumulating(elems, maps) ==
    StampAll(elems, 1,
             IF /\ ret.op = "solve_dc" /\ ret.status = "ok"
                /\ Len(ret.vector) = maps.n_nodes + maps.n_vsrc
             THEN [matrix |-> ret.matrix, vector |-> ret.vector]
             ELSE [matrix |-> ZeroMat(maps.n_nodes + maps.n_vsrc),
                   vector |-> ZeroVec(maps.n_nodes + maps.n_vsrc)],
             maps.node_map, maps.vsrc_map)

\* matrix and vector of Circuit.solve_dc after the stamping loop
dc_stamped(elems, maps) ==
    StampAll(elems, 1, [matrix |-> ZeroMat(maps.n_nodes + maps.n_vsrc),
                        vector |-> ZeroVec(maps.n_nodes + maps.n_vsrc)],
             maps.node_map, maps.vsrc_map)

dc_solve(maps, buf) == dc_result(maps, buf, linalg_solve(buf.matrix, buf.vector))

\* Circuit.solve_dc; maps are the maps _build_dc_maps has just built
solve_dc(elems, maps) ==
    IF maps.n_nodes = 0
    THEN [op |-> "solve_dc", status |-> "empty"]
    ELSE dc_solve(maps, dc_stamped(elems, maps))

\* _get_consistent_initial_conditions without its loop over the differential
\* rows: M = B.copy()
ConstraintMatrixAllRowsOfB(B, size, algvar) == B

\* M of Circuit._get_consistent_initial_conditions; algvar is self._algvar_list
ConstraintMatrix(B, size, algvar) ==
    Tup([i \in 1..size |->
        IF algvar[i] = 1
        THEN Tup([j \in 1..size |-> IF j = i THEN One ELSE Zero])
        ELSE B[i]])

\* _get_consistent_initial_conditions solving M y0 = C, the sign of C lost
get_consistent_initial_conditions_plus_C(A, B, C, size, algvar) ==
    [y0 |-> linalg_solve(ConstraintMatrix(B, size, algvar), C),
     yd0 |-> ZeroVec(size)]

\* Circuit._get_consistent_initial_conditions
get_consistent_initial_conditions(A, B, C, size, algvar) ==
    [y0 |-> linalg_solve(ConstraintMatrix(B, size, algvar), VecNeg(C)),
     yd0 |-> ZeroVec(size)]

\* the A, B, C of Circuit.build_dae_system after the stamping loop
assemble_dae(elems, maps) ==
    StampAllDae(elems, 1, [A |-> ZeroMat(maps.n_nodes + maps.n_currents),
                           B |-> ZeroMat(maps.n_nodes + maps.n_currents),
                           C |-> ZeroVec(maps.n_nodes + maps.n_currents)],
                maps.node_map, maps.vsrc_map)

\* build_dae_system catching the LinAlgError and returning y0 = 0 in its place
dae_return_zero_guess(sys, ic, algvar) ==
    [status |-> "ok", A |-> sys.A, B |-> sys.B, C |-> sys.C,
     y0 |-> IF ic.y0.ok THEN ic.y0.num ELSE ic.yd0,
     y0den |-> IF ic.y0.ok THEN ic.y0.den ELSE One,
     yd0 |-> ic.yd0, algvar_list |-> algvar]

\* what Circuit.build_dae_system returns, or the LinAlgError that leaves it;
\* y0[k] is the numerator of its value over y0den
dae_return(sys, ic, algvar) ==
    IF ~ic.y0.ok
    THEN [status |-> "LinAlgError"]
    ELSE [status |-> "ok", A |-> sys.A, B |-> sys.B, C |-> sys.C,
          y0 |-> ic.y0.num, y0den |-> ic.y0.den, yd0 |-> ic.yd0, algvar_list |-> algvar]

dae_initial(sys, size, algvar) ==
    dae_return(sys, get_consistent_initial_conditions(sys.A, sys.B, sys.C, size, algvar), algvar)

\* Circuit.build_dae_system; maps are the maps _build_maps has just built
build_dae_system(elems, maps, algvar) ==
    dae_initial(assemble_dae(elems, maps), maps.n_nodes + maps.n_currents, algvar)

\* node_connections[n] of Circuit.validate_circuit: the element terminals on node n
node_connections(elems, n) ==
    Cardinality({k \in 1..Len(elems) : elems[k].entrance = n})
        + Cardinality({k \in 1..Len(elems) : elems[k].exit = n})

\* validate_circuit without its test node != 0: ground needs two connections too
validate_circuit_counting_ground(elems) ==
    \A n \in {e.entrance : e \in Range(elems)} \cup {e.exit : e \in Range(elems)} :
        ~(node_connections(elems, n) < 2)

\* Circuit.validate_circuit: False at the first counted node, ground apart, with
\* fewer than two connections, True when the loop ends
validate_circuit(elems) ==
    \A n \in {e.entrance : e \in Range(elems)} \cup {e.exit : e \in Range(elems)} :
        ~(node_connections(elems, n) < 2 /\ n # 0)

\* residual(t, y, yd) of Circuit.solve_dae
residual(A, B, C, y, yd) == VecAdd(VecAdd(MatVec(A, yd), MatVec(B, y)), C)

-----------------------------------------------------------------------------
(* The circuit and its clients *)

\* the constructor calls a client makes
Pool ==
    { Element("VoltageSource", "V1", 1, 0, 5),
      Element("VoltageSource", "V2", 3, 0, 2),
      Element("Resistor", "R1", 1, 2, 1000),
      Element("Resistor", "R2", 2, 0, 1000),
      Element("Resistor", "R0", 2, 3, 0),
      Element("Resistor", "Rn", 1, 2, -1000),
      Element("Capacitor", "C1", 2, 0, 1),
      Element("Inductor", "L1", 3, 2, 1),
      Element("Inductor", "L2", 3, 0, 2),
      Element("CurrentSource", "I1", 1, 3, 1) }

\* the points (c, d) the integrator tries: every component of y is c, of yd is d
TrialPoints == {<<0, 0>>, <<1, 1>>}

ConstVec(n, c) == Tup([i \in 1..n |-> Int2Num(c)])

\* Circuit.solve_dae after build_dae_system: the integrator is handed residual,
\* y0 and yd0, and evaluates residual at a y and a yd of its choosing
solve_dae(sys, size) ==
    IF sys.status # "ok"
    THEN {[op |-> "solve_dae", sys |-> sys]}
    ELSE {[op |-> "solve_dae", sys |-> sys,
           y |-> ConstVec(size, p[1]), yd |-> ConstVec(size, p[2]),
           res |-> residual(sys.A, sys.B, sys.C, ConstVec(size, p[1]), ConstVec(size, p[2]))] :
          p \in TrialPoints}

\* Circuit.__init__
Init ==
    /\ elements = <<>>
    /\ nodes = {}
    /\ voltage_sources = <<>>
    /\ node_map = <<>>
    /\ vsrc_map = <<>>
    /\ algvar_list = <<>>
    /\ ret = [op |-> "init"]

\* a constructor call that raises: there is no element to add
ConstructError(e) ==
    /\ ConstructorRaises(e)
    /\ ret' = [op |-> "construct", status |-> "ZeroDivisionError", request |-> e]
    /\ UNCHANGED <<elements, nodes, voltage_sources, node_map, vsrc_map, algvar_list>>

\* add_element adding both terminals, ground included, to the node set
nodes_add_with_ground(nds, e) == nds \cup {e.entrance, e.exit}

\* the node set after add_element(e): each terminal is added unless it is 0
nodes_add(nds, e) ==
    (IF e.entrance # 0 THEN nds \cup {e.entrance} ELSE nds)
        \cup (IF e.exit # 0 THEN {e.exit} ELSE {})

\* Circuit.add_element(e), e an element whose constructor returned; a client adds
\* an element object once
AddElement(e) ==
    /\ ~ConstructorRaises(e)
    /\ e \notin Range(elements)
    /\ Len(elements) < MaxElems
    /\ LET elems == Append(elements, e)
           nds == nodes_add(nodes, e)
           vsrcs == IF IsVoltageSource(e) THEN Append(voltage_sources, e) ELSE voltage_sources
           maps == build_maps(elems, nds, vsrcs)
       IN /\ elements' = elems
          /\ nodes' = nds
          /\ voltage_sources' = vsrcs
          /\ node_map' = maps.node_map
          /\ vsrc_map' = maps.vsrc_map
          /\ algvar_list' = update_algvar_list(elems, maps)
    /\ ret' = [op |-> "add_element", status |-> "ok"]

\* Circuit.solve_dc()
SolveDC ==
    LET maps == build_dc_maps(elements, nodes, voltage_sources)
    IN /\ node_map' = maps.node_map
       /\ vsrc_map' = maps.vsrc_map
       /\ ret' = solve_dc(elements, maps)
       /\ UNCHANGED <<elements, nodes, voltage_sources, algvar_list>>

\* Circuit.build_dae_system()
BuildDaeSystem ==
    LET maps == build_maps(elements, nodes, voltage_sources)
    IN /\ node_map' = maps.node_map
       /\ vsrc_map' = maps.vsrc_map
       /\ ret' = [op |-> "build_dae_system",
                  sys |-> build_dae_system(elements, maps, algvar_list)]
       /\ UNCHANGED <<elements, nodes, voltage_sources, algvar_list>>

\* Circuit.solve_dae(t_span)
SolveDae ==
    LET maps == build_maps(elements, nodes, voltage_sources)
    IN /\ node_map' = maps.node_map
       /\ vsrc_map' = maps.vsrc_map
       /\ ret' \in solve_dae(build_dae_system(elements, maps, algvar_list),
                             maps.n_nodes + maps.n_currents)
       /\ UNCHANGED <<elements, nodes, voltage_sources, algvar_list>>

\* Circuit.validate_circuit(): it prints a warning and returns a flag
ValidateCircuit ==
    /\ ret' = [op |-> "validate_circuit", value |-> validate_circuit(elements)]
    /\ UNCHANGED <<elements, nodes, voltage_sources, node_map, vsrc_map, algvar_list>>

Next ==
    \/ \E e \in Pool : ConstructError(e)
    \/ \E e \in Pool : AddElement(e)
    \/ SolveDC
    \/ BuildDaeSystem
    \/ SolveDae
    \/ ValidateCircuit

Spec == Init /\ [][Next]_vars

\* the constructor calls of a client whose elements touch ground with the
\* entrance or with both terminals, or have both terminals on one node, and of
\* TestInductor.test_dc_short_circuit with two inductances
GroundPool ==
    { Element("VoltageSource", "Vg", 0, 0, 5),
      Element("VoltageSource", "V1", 1, 0, 5),
      Element("VoltageSource", "Vs", 2, 2, 2),
      Element("Inductor", "L3", 1, 2, 1),
      Element("Inductor", "L4", 1, 2, 3),
      Element("Resistor", "Rg", 0, 2, 1000),
      Element("Resistor", "Rs", 2, 2, 1000),
      Element("Capacitor", "Cs", 2, 2, 1),
      Element("Resistor", "R0", 1, 2, 0) }

GroundNext ==
    \/ \E e \in GroundPool : ConstructError(e)
    \/ \E e \in GroundPool : AddElement(e)
    \/ SolveDC
    \/ BuildDaeSystem
    \/ SolveDae
    \/ ValidateCircuit

GroundSpec == Init /\ [][GroundNext]_vars

\* the constructor calls of a client that builds the start of the circuit of
\* test_dae_system (source, series resistor, two capacitors on node 2, an
\* inductor) and drives node 2 with current sources in either direction
InjectionPool ==
    { Element("VoltageSource", "V1", 1, 0, 5),
      Element("Resistor", "R1", 1, 2, 1000),
      Element("Capacitor", "Cm1", 2, 0, 1),
      Element("Capacitor", "Cm2", 2, 3, 2),
      Element("Inductor", "Lm", 3, 0, 1),
      Element("CurrentSource", "I1", 2, 0, 3),
      Element("CurrentSource", "I2", 0, 2, 3),
      Element("Resistor", "R0", 2, 3, 0) }

InjectionNext ==
    \/ \E e \in InjectionPool : ConstructError(e)
    \/ \E e \in InjectionPool : AddElement(e)
    \/ SolveDC
    \/ BuildDaeSystem
    \/ SolveDae
    \/ ValidateCircuit

InjectionSpec == Init /\ [][InjectionNext]_vars

-----------------------------------------------------------------------------
(* Properties *)

\* the calls that leave the transient maps of _build_maps in node_map and vsrc_map
TransientMapsBuilt == ret.op \in {"add_element", "build_dae_system", "solve_dae"}

\* C1: whatever calls were made, and in whatever order the elements were added,
\* node_map is defined on exactly the non-ground nodes and gives each node the
\* number of smaller nodes, i.e. the indices 0..nNodes-1 in ascending node order;
\* node_map is therefore a function of the node set alone.
C1_NodeIndicesAscending ==
    /\ DOMAIN node_map = nodes
    /\ \A n \in nodes : node_map[n] = Cardinality({m \in nodes : m < n})

\* C1 witness: node 3 was added first and node 1 later, and node 1 has index 0,
\* node 3 index 2
C1_Witness ==
    /\ ret.op = "add_element"
    /\ Len(elements) >= 2
    /\ 3 \in {elements[1].entrance, elements[1].exit}
    /\ 1 \notin {elements[1].entrance, elements[1].exit}
    /\ nodes = {1, 2, 3}
    /\ node_map[1] = 0 /\ node_map[3] = 2

\* C2: once the transient maps are built, the p-th voltage source added (from 0)
\* has branch index nNodes + p, the q-th inductor of the element list has branch
\* index nNodes + nVoltageSources + q, the tag list and an assembled system have
\* size |nodes| + |voltage sources| + |inductors|, and node and branch indices
\* together are one-to-one onto 0..size-1.
C2_BranchIndices ==
    TransientMapsBuilt =>
        LET nNodes == Cardinality(nodes)
            nV == Len(voltage_sources)
            inds == SelectSeq(elements, IsInductor)
            size == nNodes + nV + Len(inds)
        IN /\ \A p \in 1..nV : vsrc_map[voltage_sources[p]] = nNodes + (p - 1)
           /\ \A q \in 1..Len(inds) : vsrc_map[inds[q]] = nNodes + nV + (q - 1)
           /\ Len(algvar_list) = size
           /\ (ret.op # "add_element" /\ ret.sys.status = "ok") =>
                  Len(ret.sys.A) = size /\ Len(ret.sys.B) = size /\ Len(ret.sys.C) = size
           /\ {node_map[n] : n \in DOMAIN node_map} \cup {vsrc_map[e] : e \in DOMAIN vsrc_map}
                  = 0..(size - 1)
           /\ Cardinality(DOMAIN node_map) + Cardinality(DOMAIN vsrc_map) = size

\* C2 witness: a system was assembled for a circuit whose first element is an
\* inductor, followed by two voltage sources
C2_Witness ==
    /\ ret.op = "build_dae_system"
    /\ Len(elements) = 3
    /\ IsInductor(elements[1])
    /\ Len(voltage_sources) = 2
    /\ vsrc_map[elements[1]] = Cardinality(nodes) + 2

\* C3: no resistor, capacitor or inductor of value <= 0 is ever in the element
\* list: such an element is refused when it is constructed or added.
C3_NonPositiveRejected ==
    \A k \in 1..Len(elements) :
        elements[k].cls \in {"Resistor", "Capacitor", "Inductor"} => elements[k].value > 0

\* the quotient x / den of a solve equals the number v
QuotientIs(x, den, v) == NumEq(x, NumMul(v, den))

\* elements are, in some order, a source v from node 1 to ground and resistors
\* r1 from node 1 to node 2 and r2 from node 2 to ground, r1 and r2 equal
IsDivider(v, r1, r2) ==
    /\ Len(elements) = 3 /\ Range(elements) = {v, r1, r2}
    /\ v.cls = "VoltageSource" /\ v.entrance = 1 /\ v.exit = 0
    /\ r1.cls = "Resistor" /\ r1.entrance = 1 /\ r1.exit = 2
    /\ r2.cls = "Resistor" /\ r2.entrance = 2 /\ r2.exit = 0
    /\ r1.value = r2.value /\ r1.value > 0

\* C4: for the divider of a source V and two equal resistors R, solve_dc returns
\* V1 = V, V2 = V/2 and I_<source> = +V/(2R).
C4_DividerSourceCurrent ==
    \A v, r1, r2 \in Range(elements) :
        (IsDivider(v, r1, r2) /\ ret.op = "solve_dc") =>
            /\ ret.status = "ok"
            /\ QuotientIs(ret.V[1], ret.den, Int2Num(v.value))
            /\ QuotientIs(NumMul(Int2Num(2), ret.V[2]), ret.den, Int2Num(v.value))
            /\ QuotientIs(NumMul(Int2Num(2 * r1.value), ret.I[v.name]), ret.den,
                          Int2Num(v.value))

\* elements are, in some order, a source v from node 1 to ground, a resistor r
\* from node 1 to node 2 and a capacitor c from node 2 to ground
IsSourceResistorCapacitor(v, r, c) ==
    /\ Len(elements) = 3 /\ Range(elements) = {v, r, c}
    /\ v.cls = "VoltageSource" /\ v.entrance = 1 /\ v.exit = 0
    /\ r.cls = "Resistor" /\ r.entrance = 1 /\ r.exit = 2 /\ r.value > 0
    /\ c.cls = "Capacitor" /\ c.entrance = 2 /\ c.exit = 0 /\ c.value > 0

\* entry by entry, the matrices M and N hold the same numbers
MatEq(M, N) ==
    /\ Len(M) = Len(N)
    /\ \A i \in 1..Len(M) : \A j \in 1..Len(M) : NumEq(M[i][j], N[i][j])

\* C5: for a source, a series resistor and a capacitor to ground, the DC matrix is
\* the matrix of the source and the resistor alone (the capacitor adds nothing),
\* and solve_dc gives the capacitor's node exactly the source voltage.
C5_CapacitorOpenInDc ==
    \A v, r, c \in Range(elements) :
        (IsSourceResistorCapacitor(v, r, c) /\ ret.op = "solve_dc") =>
            /\ ret.status = "ok"
            /\ MatEq(ret.matrix, dc_stamped(<<v, r>>, [node_map |-> node_map,
                                                      vsrc_map |-> vsrc_map,
                                                      n_nodes |-> 2, n_vsrc |-> 1]).matrix)
            /\ QuotientIs(ret.V[2], ret.den, Int2Num(v.value))

\* entry by entry, the vectors u and w hold the same numbers
VecEq(u, w) == Len(u) = Len(w) /\ \A i \in 1..Len(u) : NumEq(u[i], w[i])

\* C6: the residual the integrator is handed is A yd - B y - C, or its negation,
\* for the A, B, C of build_dae_system.
C6_ResidualForm ==
    (ret.op = "solve_dae" /\ ret.sys.status = "ok") =>
        \/ VecEq(ret.res, VecAdd(MatVec(ret.sys.A, ret.yd),
                                 VecNeg(VecAdd(MatVec(ret.sys.B, ret.y), ret.sys.C))))
        \/ VecEq(ret.res, VecAdd(VecNeg(MatVec(ret.sys.A, ret.yd)),
                                 VecAdd(MatVec(ret.sys.B, ret.y), ret.sys.C)))

\* the number of unknowns of the transient system
SystemSize == Cardinality(nodes) + Len(voltage_sources) + Len(SelectSeq(elements, IsInductor))

\* C7: for every current source of the circuit, what stamp_dae adds to C is the
\* negation of what stamp adds to the DC right-hand side, index by index.
C7_CurrentSourceDaeNegatesDc ==
    \A e \in Range(elements) :
        e.cls = "CurrentSource" =>
            VecEq(CurrentSource_stamp_dae(e, [A |-> ZeroMat(SystemSize),
                                             B |-> ZeroMat(SystemSize),
                                             C |-> ZeroVec(SystemSize)],
                                          node_map, vsrc_map).C,
                  VecNeg(CurrentSource_stamp(e, [matrix |-> ZeroMat(SystemSize),
                                                 vector |-> ZeroVec(SystemSize)],
                                             node_map, vsrc_map).vector))

\* C8: for every voltage source of the circuit, with branch index k, stamp_dae
\* puts into B the entries stamp puts into the DC matrix, and sets C[k] = -V.
C8_VoltageSourceDaeMatchesDc ==
    \A e \in Range(elements) :
        e.cls = "VoltageSource" =>
            /\ MatEq(VoltageSource_stamp_dae(e, [A |-> ZeroMat(SystemSize),
                                                B |-> ZeroMat(SystemSize),
                                                C |-> ZeroVec(SystemSize)],
                                             node_map, vsrc_map).B,
                     VoltageSource_stamp(e, [matrix |-> ZeroMat(SystemSize),
                                             vector |-> ZeroVec(SystemSize)],
                                         node_map, vsrc_map).matrix)
            /\ NumEq(VGet(VoltageSource_stamp_dae(e, [A |-> ZeroMat(SystemSize),
                                                     B |-> ZeroMat(SystemSize),
                                                     C |-> ZeroVec(SystemSize)],
                                                  node_map, vsrc_map).C, vsrc_map[e]),
                     Int2Num(-e.value))

\* the solve_dc result in unknown-vector order, as numerators over ret.den
DcPoint ==
    Tup([k \in 1..SystemSize |->
        IF k <= Cardinality(nodes)
        THEN ret.V[CHOOSE n \in nodes : node_map[n] = k - 1]
        ELSE ret.I[(CHOOSE src \in DOMAIN vsrc_map : vsrc_map[src] = k - 1).name]])

\* ret.den times the residual of the system sys at the DC point with yd = 0
DcResidual(sys) ==
    residual(sys.A, sys.B, VecScale(ret.den, sys.C), DcPoint, ZeroVec(SystemSize))

\* C9: after solve_dc on a circuit of voltage sources, resistors and at least one
\* capacitor, the residual of the assembled DAE at the DC point with yd = 0 is
\* zero on every row tagged algebraic (tag 0).
C9_DcPointSatisfiesAlgebraicRows ==
    ( /\ ret.op = "solve_dc" /\ ret.status = "ok"
      /\ \A e \in Range(elements) : e.cls \in {"VoltageSource", "Resistor", "Capacitor"}
      /\ \E e \in Range(elements) : IsCapacitor(e) ) =>
        \A i \in 1..SystemSize :
            algvar_list[i] = 0 =>
                NumIsZero(DcResidual(assemble_dae(elements,
                              build_maps(elements, nodes, voltage_sources)))[i])

\* C10: when build_dae_system returns, (B y0 + C)[i] = 0 on every row i tagged
\* algebraic (tag 0), and yd0 is the zero vector of the system size.
C10_InitialConditionsConsistent ==
    (ret.op = "build_dae_system" /\ ret.sys.status = "ok") =>
        /\ \A i \in 1..SystemSize :
               algvar_list[i] = 0 =>
                   NumIsZero(NumAdd(RowDot(ret.sys.B, i - 1, ret.sys.y0),
                                    NumMul(ret.sys.y0den, ret.sys.C[i])))
        /\ Len(ret.sys.yd0) = SystemSize
        /\ \A i \in 1..SystemSize : NumIsZero(ret.sys.yd0[i])

\* C10 witness: build_dae_system returned for a circuit with an algebraic row whose
\* constant is not 0, a differential row, and a y0 that is not 0
C10_Witness ==
    /\ ret.op = "build_dae_system" /\ ret.sys.status = "ok"
    /\ \E i \in 1..SystemSize : algvar_list[i] = 0 /\ ~NumIsZero(ret.sys.C[i])
    /\ \E i \in 1..SystemSize : algvar_list[i] = 1
    /\ \E i \in 1..SystemSize : ~NumIsZero(ret.sys.y0[i])

\* C11: in every state (so after every add_element), the tag list has one tag, 0
\* or 1, per unknown, in the order node voltages by ascending node, voltage
\* source currents in insertion order, inductor currents in insertion order; a
\* node's tag is 1 (differential) exactly when some capacitor has that node as a
\* terminal, every voltage source current has tag 0 (algebraic), every inductor
\* current tag 1; and the list build_dae_system returns is that list.
C11_TagsFollowUnknownVector ==
    /\ Len(algvar_list) = SystemSize
    /\ \A k \in 1..Len(algvar_list) : algvar_list[k] \in {0, 1}
    /\ \A n \in nodes :
           (algvar_list[Cardinality({m \in nodes : m < n}) + 1] = 1)
               <=> (\E e \in Range(elements) : IsCapacitor(e) /\ n \in {e.entrance, e.exit})
    /\ \A p \in 1..Len(voltage_sources) : algvar_list[Cardinality(nodes) + p] = 0
    /\ \A q \in 1..Len(inductors_of(elements)) :
           algvar_list[Cardinality(nodes) + Len(voltage_sources) + q] = 1
    /\ (ret.op = "build_dae_system" /\ ret.sys.status = "ok") =>
           ret.sys.algvar_list = algvar_list

\* C11 witness: build_dae_system returned for a circuit with a capacitor node, a
\* node without capacitor, a voltage source and an inductor
C11_Witness ==
    /\ ret.op = "build_dae_system" /\ ret.sys.status = "ok"
    /\ \E e \in Range(elements) : IsCapacitor(e)
    /\ \E n \in nodes : \A e \in Range(elements) : IsCapacitor(e) => n \notin {e.entrance, e.exit}
    /\ \E e \in Range(elements) : IsVoltageSource(e)
    /\ \E e \in Range(elements) : IsInductor(e)
    /\ ret.sys.algvar_list = <<1, 0, 0, 1>>

\* the nodes n with a key "V<n>", and the names with a key "I_<name>", in the
\* mapping solve_dc returned
ResultNodes == IF ret.status = "ok" THEN DOMAIN ret.V ELSE {}
ResultSources == IF ret.status = "ok" THEN DOMAIN ret.I ELSE {}

\* C12: a solve_dc that returns (no error) returns a mapping with exactly one
\* "V<node>" key per non-ground node and one "I_<name>" key per voltage source of
\* the circuit, none for an inductor; and it returns, with the empty mapping,
\* when nNodes + nVsrc = 0.
C12_ResultKeys ==
    ret.op = "solve_dc" =>
        /\ ret.status \in {"ok", "empty"} =>
               /\ ResultNodes = nodes
               /\ ResultSources = {src.name : src \in Range(voltage_sources)}
               /\ \A e \in Range(elements) : IsInductor(e) => e.name \notin ResultSources
        /\ Cardinality(nodes) + Len(voltage_sources) = 0 => ret.status = "empty"

\* The circuit a client gets by adding the elements of the current list, in
\* order, to a new Circuit: its node set, its voltage source list, the maps its
\* first solve_dc and its first build_dae_system build, and its tag list.
FreshNodes == UNION {{e.entrance, e.exit} : e \in Range(elements)} \ {0}
FreshVsrcs == SelectSeq(elements, IsVoltageSource)
FreshNodeMap == [n \in FreshNodes |-> Cardinality({m \in FreshNodes : m < n})]
PositionIn(q, x) == CHOOSE k \in 1..Len(q) : q[k] = x
FreshDcMaps ==
    [node_map |-> FreshNodeMap,
     vsrc_map |-> [src \in Range(FreshVsrcs) |->
                      Cardinality(FreshNodes) + PositionIn(FreshVsrcs, src) - 1],
     n_nodes |-> Cardinality(FreshNodes),
     n_vsrc |-> Len(FreshVsrcs)]
FreshMaps ==
    [node_map |-> FreshNodeMap,
     vsrc_map |-> [x \in Range(FreshVsrcs) \cup Range(inductors_of(elements)) |->
                      IF IsInductor(x)
                      THEN Cardinality(FreshNodes) + Len(FreshVsrcs)
                               + PositionIn(inductors_of(elements), x) - 1
                      ELSE Cardinality(FreshNodes) + PositionIn(FreshVsrcs, x) - 1],
     n_nodes |-> Cardinality(FreshNodes),
     n_currents |-> Len(FreshVsrcs) + Len(inductors_of(elements))]
FreshAlgvar == update_algvar_list(elements, FreshMaps)

\* C13: whatever calls came before (repeated solve_dc or build_dae_system calls,
\* in any interleaving between the add_element calls), the maps solve_dc and
\* build_dae_system leave and everything they return (matrices, vectors,
\* solution, y0, yd0, tag list) are those of a single call on a new circuit
\* holding the same element list.
C13_OutputsDependOnElementsOnly ==
    /\ ret.op = "solve_dc" =>
           /\ node_map = FreshDcMaps.node_map
           /\ vsrc_map = FreshDcMaps.vsrc_map
           /\ ret = solve_dc(elements, FreshDcMaps)
    /\ ret.op = "build_dae_system" =>
           /\ node_map = FreshMaps.node_map
           /\ vsrc_map = FreshMaps.vsrc_map
           /\ ret.sys = build_dae_system(elements, FreshMaps, FreshAlgvar)

\* C13 witness: solve_dc returned a solution for a circuit with an inductor, so
\* it replaced the maps add_element or build_dae_system had left (they number
\* the inductor), and a capacitor, so the tag list is not all 0
C13_Witness ==
    /\ ret.op = "solve_dc" /\ ret.status = "ok"
    /\ \E e \in Range(elements) : IsInductor(e)
    /\ \E e \in Range(elements) : IsCapacitor(e)
    /\ DOMAIN vsrc_map # DOMAIN FreshMaps.vsrc_map

\* M of the initial-condition solve of the current circuit
InitialConditionMatrix ==
    ConstraintMatrix(assemble_dae(elements, FreshMaps).B, SystemSize, algvar_list)

\* some node's unknown is algebraic and its row of B is all zero
AlgebraicNodeRowZero ==
    \E n \in nodes :
        /\ algvar_list[FreshNodeMap[n] + 1] = 0
        /\ \A j \in 1..SystemSize :
               NumIsZero(assemble_dae(elements, FreshMaps).B[FreshNodeMap[n] + 1][j])

DcSystemSize == Cardinality(nodes) + Len(voltage_sources)
DcSystemMatrix == dc_stamped(elements, FreshDcMaps).matrix

\* some node's row of the DC matrix is all zero
DcNodeRowZero ==
    \E n \in nodes :
        \A j \in 1..DcSystemSize : NumIsZero(DcSystemMatrix[FreshNodeMap[n] + 1][j])

\* C15: solve_dc ends in its error, the ValueError that carries the solver's
\* LinAlgError, exactly when the DC system matrix is singular, in particular
\* when a node's row is all zero; the error comes with no result, and a result
\* that is returned is the solution of the unperturbed stamped matrix.
C15_SingularDcFails ==
    ret.op = "solve_dc" =>
        /\ (ret.status = "ValueError") <=> NumIsZero(Det(DcSystemMatrix, DcSystemSize))
        /\ DcNodeRowZero => ret.status = "ValueError"
        /\ ret.status = "ValueError" =>
               /\ ret.cause = "LinAlgError"
               /\ DOMAIN ret = {"op", "status", "cause"}
        /\ ret.status = "ok" => MatEq(ret.matrix, DcSystemMatrix)

\* the elements are, in some order, the voltage source v from node 1 to ground
\* and one or more inductors, each from node 1 to node 2
IsSourceDrivingInductor(v) ==
    /\ v \in Range(elements)
    /\ v.cls = "VoltageSource" /\ v.entrance = 1 /\ v.exit = 0
    /\ Range(elements) # {v}
    /\ \A l \in Range(elements) \ {v} : IsInductor(l) /\ l.entrance = 1 /\ l.exit = 2

\* C16: for a voltage source at node 1 driving inductors from node 1 to node 2,
\* node 2 touched by nothing else, solve_dc returns V1 = V2 = the source
\* voltage, whatever the inductances.
C16_InductorShortInDc ==
    \A v \in Range(elements) :
        (IsSourceDrivingInductor(v) /\ ret.op = "solve_dc") =>
            /\ ret.status = "ok"
            /\ QuotientIs(ret.V[1], ret.den, Int2Num(v.value))
            /\ QuotientIs(ret.V[2], ret.den, Int2Num(v.value))

\* C16 witness: solve_dc returned V2 = 5 for the source of 5 V and a single
\* inductor whose inductance is not 1
C16_Witness ==
    /\ ret.op = "solve_dc" /\ ret.status = "ok"
    /\ Len(elements) = 2
    /\ \E v \in Range(elements) : IsSourceDrivingInductor(v) /\ v.value = 5
    /\ \E l \in Range(elements) : IsInductor(l) /\ l.value # 1
    /\ QuotientIs(ret.V[2], ret.den, Int2Num(5))

\* C17: in every state, whatever elements were added (elements with the
\* entrance, the exit or both terminals on node 0 included) and whatever
\* analysis rebuilt the maps, 0 is not in the node set and not a key of node_map.
C17_GroundNeverANode ==
    /\ 0 \notin nodes
    /\ 0 \notin DOMAIN node_map

\* C17 witness: the circuit holds an element with both terminals on ground, one
\* with only its entrance on ground and one with only its exit on ground, and
\* the maps were rebuilt
C17_Witness ==
    /\ ret.op \in {"solve_dc", "build_dae_system"}
    /\ \E e \in Range(elements) : e.entrance = 0 /\ e.exit = 0
    /\ \E e \in Range(elements) : e.entrance = 0 /\ e.exit # 0
    /\ \E e \in Range(elements) : e.entrance # 0 /\ e.exit = 0
    /\ nodes = {1, 2}
    /\ DOMAIN node_map = {1, 2}

\* the element terminals that touch node n
TerminalsOn(n) ==
    {t \in (1..Len(elements)) \X {"entrance", "exit"} : elements[t[1]][t[2]] = n}

\* some non-ground node is touched by fewer than two element terminals
FloatingNode == \E n \in nodes : Cardinality(TerminalsOn(n)) < 2

\* C18: validate_circuit returns False exactly when some non-ground node is
\* touched by fewer than two element terminals; and on a circuit with such a
\* node solve_dc and build_dae_system return what they return for the element
\* list, ending in an error only when their matrix is singular.
C18_FloatingNodeAdvisory ==
    /\ ret.op = "validate_circuit" => (ret.value = FALSE <=> FloatingNode)
    /\ (FloatingNode /\ ret.op = "solve_dc") =>
           /\ ret = solve_dc(elements, FreshDcMaps)
           /\ ret.status # "ok" =>
                  \/ nodes = {}
                  \/ NumIsZero(Det(DcSystemMatrix, DcSystemSize))
    /\ (FloatingNode /\ ret.op = "build_dae_system") =>
           /\ ret.sys = build_dae_system(elements, FreshMaps, FreshAlgvar)
           /\ ret.sys.status # "ok" => NumIsZero(Det(InitialConditionMatrix, SystemSize))

\* C18 witness: validate_circuit returned False for a circuit with a node touched
\* once, a node touched twice or more, and ground touched once
C18_Witness ==
    /\ ret.op = "validate_circuit" /\ ret.value = FALSE
    /\ \E n \in nodes : Cardinality(TerminalsOn(n)) = 1
    /\ \E n \in nodes : Cardinality(TerminalsOn(n)) >= 2
    /\ Cardinality(TerminalsOn(0)) = 1

\* buffers that already hold 1 in every cell, and the cell-wise sum of matrices
OnesVec(n) == Tup([i \in 1..n |-> One])
OnesMat(n) == Tup([i \in 1..n |-> OnesVec(n)])
MatSum(M, N) == Tup([i \in 1..Len(M) |-> VecAdd(M[i], N[i])])

\* what stamp(e) and stamp_dae(e) add: their result on all-zero buffers
DcContribution(e) ==
    stamp(e, [matrix |-> ZeroMat(DcSystemSize), vector |-> ZeroVec(DcSystemSize)],
          FreshDcMaps.node_map, FreshDcMaps.vsrc_map)
DaeContribution(e) ==
    stamp_dae(e, [A |-> ZeroMat(SystemSize), B |-> ZeroMat(SystemSize),
                  C |-> ZeroVec(SystemSize)],
              FreshMaps.node_map, FreshMaps.vsrc_map)

\* their result on buffers that hold 1 in every cell
DcOnOnes(e) ==
    stamp(e, [matrix |-> OnesMat(DcSystemSize), vector |-> OnesVec(DcSystemSize)],
          FreshDcMaps.node_map, FreshDcMaps.vsrc_map)
DaeOnOnes(e) ==
    stamp_dae(e, [A |-> OnesMat(SystemSize), B |-> OnesMat(SystemSize),
                  C |-> OnesVec(SystemSize)],
              FreshMaps.node_map, FreshMaps.vsrc_map)

\* C19: for every element of the circuit, stamp and stamp_dae applied to buffers
\* that already hold values leave in every cell the value it held plus the
\* element's contribution: matrix and right-hand side in DC, A, B and C in the
\* transient system.
C19_StampsOnlyAdd ==
    \A e \in Range(elements) :
        /\ MatEq(DcOnOnes(e).matrix, MatSum(OnesMat(DcSystemSize), DcContribution(e).matrix))
        /\ VecEq(DcOnOnes(e).vector, VecAdd(OnesVec(DcSystemSize), DcContribution(e).vector))
        /\ MatEq(DaeOnOnes(e).A, MatSum(OnesMat(SystemSize), DaeContribution(e).A))
        /\ MatEq(DaeOnOnes(e).B, MatSum(OnesMat(SystemSize), DaeContribution(e).B))
        /\ VecEq(DaeOnOnes(e).C, VecAdd(OnesVec(SystemSize), DaeContribution(e).C))

\* C19 for the elements whose stamps use only += and -=: resistors, current
\* sources and capacitors
AdditiveStampsOnlyAdd ==
    \A e \in Range(elements) :
        e.cls \in {"Resistor", "CurrentSource", "Capacitor"} =>
            /\ MatEq(DcOnOnes(e).matrix, MatSum(OnesMat(DcSystemSize), DcContribution(e).matrix))
            /\ VecEq(DcOnOnes(e).vector, VecAdd(OnesVec(DcSystemSize), DcContribution(e).vector))
            /\ MatEq(DaeOnOnes(e).A, MatSum(OnesMat(SystemSize), DaeContribution(e).A))
            /\ MatEq(DaeOnOnes(e).B, MatSum(OnesMat(SystemSize), DaeContribution(e).B))
            /\ VecEq(DaeOnOnes(e).C, VecAdd(OnesVec(SystemSize), DaeContribution(e).C))

\* the orders in which a list of n elements can be iterated
Orders(n) == {p \in [1..n -> 1..n] : \A a, b \in 1..n : p[a] = p[b] => a = b}
Reordered(q, p) == Tup([k \in 1..Len(q) |-> q[p[k]]])

\* the stamping loops of solve_dc and build_dae_system over the list elems, on
\* zero buffers, with the maps dcmaps and maps
DcStampedInOrder(elems, dcmaps) ==
    StampAll(elems, 1, [matrix |-> ZeroMat(DcSystemSize), vector |-> ZeroVec(DcSystemSize)],
             dcmaps.node_map, dcmaps.vsrc_map)
DaeStampedInOrder(elems, maps) ==
    StampAllDae(elems, 1, [A |-> ZeroMat(SystemSize), B |-> ZeroMat(SystemSize),
                           C |-> ZeroVec(SystemSize)],
                maps.node_map, maps.vsrc_map)

\* equal buffers: the same cell values (a value may be written in several ways)
SameDcBuffers(x, y) == x = y \/ (MatEq(x.matrix, y.matrix) /\ VecEq(x.vector, y.vector))
SameDaeBuffers(x, y) == x = y \/ (MatEq(x.A, y.A) /\ MatEq(x.B, y.B) /\ VecEq(x.C, y.C))

\* every order of stamping elems gives the DC buffers dc, the DAE buffers dae
EveryOrderGivesDc(elems, dcmaps, dc) ==
    \A p \in Orders(Len(elems)) :
        SameDcBuffers(DcStampedInOrder(Reordered(elems, p), dcmaps), dc)
EveryOrderGivesDae(elems, maps, dae) ==
    \A p \in Orders(Len(elems)) :
        SameDaeBuffers(DaeStampedInOrder(Reordered(elems, p), maps), dae)

\* C20: with the index maps held fixed, stamping the elements in any order gives
\* what stamping them in list order gives: the matrix and right-hand side of a
\* solve_dc call, and the A, B and C of a build_dae_system call.
C20_StampingOrderIrrelevant ==
    /\ ret.op = "solve_dc" =>
           EveryOrderGivesDc(elements, FreshDcMaps, DcStampedInOrder(elements, FreshDcMaps))
    /\ ret.op = "build_dae_system" =>
           EveryOrderGivesDae(elements, FreshMaps, DaeStampedInOrder(elements, FreshMaps))

\* C20 witness: an analysis ran on three elements that all touch node 2, one of
\* them with both terminals on it, among them a voltage source and an inductor
C20_Witness ==
    /\ ret.op \in {"solve_dc", "build_dae_system"}
    /\ Len(elements) = 3
    /\ \A e \in Range(elements) : 2 \in {e.entrance, e.exit}
    /\ \E e \in Range(elements) : e.entrance = e.exit /\ e.entrance # 0
    /\ \E e \in Range(elements) : IsVoltageSource(e)
    /\ \E e \in Range(elements) : IsInductor(e)

\* every element of the circuit has a positive parameter
PositiveParameters == \A e \in Range(elements) : e.value > 0

\* C21: when build_dae_system returns for a circuit of elements with positive
\* parameters, row i of the returned A is all zero exactly when unknown i is
\* tagged algebraic (tag 0): every capacitor-terminal node and every inductor
\* current has a non-zero row in A.
C21_MassMatrixAgreesWithTags ==
    (ret.op = "build_dae_system" /\ ret.sys.status = "ok" /\ PositiveParameters) =>
        \A i \in 1..SystemSize :
            (\A j \in 1..SystemSize : NumIsZero(ret.sys.A[i][j]))
                <=> ret.sys.algvar_list[i] = 0

\* the matrix solve_dc assembled: the one it solved, or the one the solver
\* rejected
DcMatrixAssembled == IF ret.status = "ok" THEN ret.matrix ELSE DcSystemMatrix

\* C22: the matrix a solve_dc call assembles is symmetric: the node block G is
\* symmetric, the entry of a source row at a node column equals the entry of
\* that node row at the source column, and the source-by-source block D is zero.
C22_DcMatrixSymmetric ==
    (ret.op = "solve_dc" /\ ret.status # "empty") =>
        /\ Len(DcMatrixAssembled) = DcSystemSize
        /\ \A i, j \in 1..Cardinality(nodes) :
               NumEq(DcMatrixAssembled[i][j], DcMatrixAssembled[j][i])
        /\ \A i \in 1..Cardinality(nodes) : \A k \in (Cardinality(nodes) + 1)..DcSystemSize :
               NumEq(DcMatrixAssembled[k][i], DcMatrixAssembled[i][k])
        /\ \A k, l \in (Cardinality(nodes) + 1)..DcSystemSize :
               NumIsZero(DcMatrixAssembled[k][l])

\* C22 witness: solve_dc solved a circuit with two voltage sources whose matrix
\* has a non-zero entry off the diagonal of G and a non-zero source entry
C22_Witness ==
    /\ ret.op = "solve_dc" /\ ret.status = "ok"
    /\ Len(voltage_sources) = 2
    /\ \E i, j \in 1..Cardinality(nodes) : i # j /\ ~NumIsZero(ret.matrix[i][j])
    /\ \E i \in 1..Cardinality(nodes) : \E k \in (Cardinality(nodes) + 1)..DcSystemSize :
           ~NumIsZero(ret.matrix[k][i])

\* the nodes that are a terminal of some capacitor, and the index of node n and
\* of inductor l in the unknown vector (from 1)
CapacitorNodes ==
    {n \in nodes : \E e \in Range(elements) : IsCapacitor(e) /\ n \in {e.entrance, e.exit}}
NodeUnknown(n) == FreshNodeMap[n] + 1
InductorUnknown(l) == FreshMaps.vsrc_map[l] + 1

\* a current source has a terminal on node n
CurrentSourceOn(n) ==
    \E e \in Range(elements) : e.cls = "CurrentSource" /\ n \in {e.entrance, e.exit}

\* the current the sources inject into node n as CurrentSource.stamp_dae counts
\* it: +I for a source whose entrance is n, -I for one whose exit is n
RECURSIVE InjectedFrom(_, _)
InjectedFrom(k, n) ==
    IF k > Len(elements) THEN 0
    ELSE InjectedFrom(k + 1, n)
         + (IF elements[k].cls = "CurrentSource" /\ elements[k].entrance = n
            THEN elements[k].value ELSE 0)
         - (IF elements[k].cls = "CurrentSource" /\ elements[k].exit = n
            THEN elements[k].value ELSE 0)

\* y0[i] = -C[i] on every row tagged differential, and every inductor current
\* starts at 0
DifferentialStartsAtMinusC ==
    /\ \A i \in 1..SystemSize :
           ret.sys.algvar_list[i] = 1 =>
               QuotientIs(ret.sys.y0[i], ret.sys.y0den, NumNeg(ret.sys.C[i]))
    /\ \A l \in Range(inductors_of(elements)) : NumIsZero(ret.sys.y0[InductorUnknown(l)])

\* C23: in the y0 build_dae_system returns, y0[i] = -C[i] for every unknown
\* tagged differential, every inductor current is 0, and the voltage of a
\* capacitor-terminal node is 0 exactly when no current source is attached to
\* that node.
C23_DifferentialStartValues ==
    (ret.op = "build_dae_system" /\ ret.sys.status = "ok") =>
        /\ DifferentialStartsAtMinusC
        /\ \A n \in CapacitorNodes :
               NumIsZero(ret.sys.y0[NodeUnknown(n)]) <=> ~CurrentSourceOn(n)

\* C23 amended: y0[i] = -C[i] for every unknown tagged differential, every
\* inductor current is 0, and the voltage of a capacitor-terminal node is the
\* net current the sources inject into it, which is 0 when none is attached
\* (and also when the attached sources cancel).
C23_DifferentialStartIsNetInjection ==
    (ret.op = "build_dae_system" /\ ret.sys.status = "ok") =>
        /\ DifferentialStartsAtMinusC
        /\ \A n \in CapacitorNodes :
               /\ QuotientIs(ret.sys.y0[NodeUnknown(n)], ret.sys.y0den,
                             Int2Num(InjectedFrom(1, n)))
               /\ ~CurrentSourceOn(n) => NumIsZero(ret.sys.y0[NodeUnknown(n)])

\* C23 witness: build_dae_system returned for a circuit with an inductor and a
\* capacitor node that one current source drives, and the node starts at a
\* voltage that is not 0
C23_Witness ==
    /\ ret.op = "build_dae_system" /\ ret.sys.status = "ok"
    /\ \E l \in Range(elements) : IsInductor(l)
    /\ \E n \in CapacitorNodes :
           /\ CurrentSourceOn(n)
           /\ InjectedFrom(1, n) # 0
           /\ ~NumIsZero(ret.sys.y0[NodeUnknown(n)])

====
